---- MODULE Spec2Model ----
(***************************************************************************)
(* A model of ran2.py: a pipeline that draws a random string, salts and    *)
(* hashes it, hashes it again, sums its characters through a fixed map and *)
(* reduces the sum to a ten-digit number.                                  *)
(*                                                                         *)
(* A character is its code point, a str a sequence of code points, a bytes *)
(* object a sequence of 0..255.  A Python int that can exceed 2^31 is kept *)
(* in two limbs, [hi, lo] standing for hi * 10^5 + lo.                     *)
(***************************************************************************)
EXTENDS Integers, Sequences, FiniteSets, TLC

\* ---------------------------------------------------------------- bounds
\* the random source is explored over the draws 0 .. NumDraws-1
NumDraws == 2
\* hashlib is explored over the digest functions 0 .. NumHashes-1
NumHashes == 5
\* argument strings of a direct call have at most MaxStrLen characters ...
MaxStrLen == 3
\* ... taken from the first NumChars characters of PaletteSeq
NumChars == 5
\* explicit length arguments range over -MaxLength .. MaxLength
MaxLength == 3

\* ------------------------------------------------------------- constants
\* def generate_random_string(length=25)
DefaultStringLength == 25
\* def generate_salt(length=6)
DefaultSaltLength == 6

Limb == 10 ^ 5

Range(f) == {f[i] : i \in DOMAIN f}

Min(a, b) == IF a < b THEN a ELSE b

\* ---------------------------------------------------------- module string
ascii_lowercase == [i \in 1..26 |-> 96 + i]

ascii_uppercase == [i \in 1..26 |-> 64 + i]

ascii_letters == ascii_lowercase \o ascii_uppercase

digits == [i \in 1..10 |-> 47 + i]

\* the digits hexdigest() renders a digest with
hexdigits == digits \o [i \in 1..6 |-> 96 + i]

VARIABLES
    hashlib,          \* which digest function the hash library computes
    fn,               \* direct calls: the function last called
    args,             \* direct calls: its arguments
    ret,              \* direct calls: what it returned
    pc,               \* per run of the program: where the run is
    random_string,    \* per run: main's locals
    salted_hash,
    double_hashed,
    char_sum,
    ten_digit_number,
    log,              \* per run: the records the logger emitted
    stdout,           \* per run: the lines printed
    trace,            \* per run: the calls main made, in order (history)
    exc,              \* per run: the exception in flight
    exit_status,      \* per run: the status the process ended with
    test_failures     \* per run: the unit tests that failed

vars == <<hashlib, fn, args, ret, pc, random_string, salted_hash, double_hashed,
          char_sum, ten_digit_number, log, stdout, trace, exc, exit_status,
          test_failures>>

callvars == <<fn, args, ret>>

runvars == <<pc, random_string, salted_hash, double_hashed, char_sum,
             ten_digit_number, log, stdout, trace, exc, exit_status, test_failures>>

\* ------------------------------------------------------------ environment
\* secrets.choice(seq): the k-th draw of a call whose random source yields
\* the stream rnd
secrets_choice(seq, rnd, k) == seq[((rnd * 13 + k * (rnd + 1)) % Len(seq)) + 1]

\* str.encode('utf-8') of one code point (a Unicode scalar value)
utf8_char(cp) ==
    IF cp < 128 THEN <<cp>>
    ELSE IF cp < 2048 THEN <<192 + (cp \div 64), 128 + (cp % 64)>>
    ELSE IF cp < 65536
         THEN <<224 + (cp \div 4096), 128 + ((cp \div 64) % 64), 128 + (cp % 64)>>
         ELSE <<240 + (cp \div 262144), 128 + ((cp \div 4096) % 64),
                128 + ((cp \div 64) % 64), 128 + (cp % 64)>>

\* the encodings of s[lo..hi] in order, joined by halves
RECURSIVE encode_range(_, _, _)
encode_range(s, lo, hi) ==
    IF lo > hi THEN << >>
    ELSE IF lo = hi THEN utf8_char(s[lo])
    ELSE encode_range(s, lo, (lo + hi) \div 2) \o encode_range(s, ((lo + hi) \div 2) + 1, hi)

encode_utf8(s) == encode_range(s, 1, Len(s))

\* str(n) of an int n >= 0
RECURSIVE str_int(_)
str_int(n) == IF n < 10 THEN <<48 + n>> ELSE str_int(n \div 10) \o <<48 + (n % 10)>>

\* hashlib: a digest is a function of the bytes hashed, rendered by hexdigest()
\* as bits/4 lowercase hex digits.  Which function is not computed here: the
\* model runs over a family of them.  Digest function h with h < 4 is constant
\* (every digit '9', 'a', 'f' or '0'), the others depend on every byte and on
\* its place.
RECURSIVE absorb(_, _, _)
absorb(bytes, lo, hi) ==
    IF lo > hi THEN 0
    ELSE IF lo = hi THEN ((7 * lo + 3) * (bytes[lo] + 1)) % 65521
    ELSE (absorb(bytes, lo, (lo + hi) \div 2)
          + absorb(bytes, ((lo + hi) \div 2) + 1, hi)) % 65521

HashPad(h) == <<9, 10, 15, 0>>[(h % 4) + 1]

hexdigest(bits, h, bytes) ==
    LET acc == bits + absorb(bytes, 1, Len(bytes))
        mix == h \div 4
    IN [k \in 1..(bits \div 4) |->
           hexdigits[((HashPad(h) + mix * (acc + k * (1 + (acc % 15)))) % 16) + 1]]

sha512_hexdigest(bytes) == hexdigest(512, hashlib, bytes)

sha256_hexdigest(bytes) == hexdigest(256, hashlib, bytes)

\* int(s, 16) of lowercase hex digits, in limbs
hexval(c) == IF c < 58 THEN c - 48 ELSE c - 87

RECURSIVE int16_from(_, _, _)
int16_from(s, i, v) ==
    IF i > Len(s) THEN v
    ELSE LET l == v.lo * 16 + hexval(s[i])
         IN int16_from(s, i + 1, [hi |-> v.hi * 16 + (l \div Limb), lo |-> l % Limb])

int16(s) == int16_from(s, 1, [hi |-> 0, lo |-> 0])

\* v % 10000000000, 10000000000 being Limb * Limb
mod_ten_billion(v) == [hi |-> v.hi % Limb, lo |-> v.lo]

\* format(v, "010"): the decimal digits of v, zero-filled on the left to a
\* width of at least 10
zfill(s, width) == [i \in 1..(width - Len(s)) |-> 48] \o s

\* format(v, ""): no width
format_plain(v) ==
    IF v.hi = 0 THEN str_int(v.lo) ELSE str_int(v.hi) \o zfill(str_int(v.lo), 5)

format_010(v) ==
    LET text == IF v.hi = 0 THEN str_int(v.lo)
                ELSE str_int(v.hi) \o zfill(str_int(v.lo), 5)
    IN zfill(text, 10)

\* ------------------------------------------------------------ the program
generate_random_string_short(length, rnd) ==
    LET characters == ascii_letters \o digits
    IN [k \in 1..(length - 1) |-> secrets_choice(characters, rnd, k)]

generate_random_string(length, rnd) ==
    LET characters == ascii_letters \o digits
    IN [k \in 1..length |-> secrets_choice(characters, rnd, k)]

generate_salt(length, rnd) ==
    LET characters == ascii_letters \o digits
    IN [k \in 1..length |-> secrets_choice(characters, rnd, k)]

hash_with_salt_inside(input_string, rnd_front, rnd_back) ==
    LET front_salt == generate_salt(DefaultSaltLength, rnd_front)
        back_salt == generate_salt(DefaultSaltLength, rnd_back)
        sha512_hash == sha512_hexdigest(encode_utf8(front_salt \o input_string))
    IN front_salt \o sha512_hash \o back_salt

hash_with_salt(input_string, rnd_front, rnd_back) ==
    LET sha512_hash == sha512_hexdigest(encode_utf8(input_string))
        front_salt == generate_salt(DefaultSaltLength, rnd_front)
        back_salt == generate_salt(DefaultSaltLength, rnd_back)
    IN front_salt \o sha512_hash \o back_salt

\* hexdigest().upper()
double_hash_base64_upper(input_string) ==
    LET d == sha512_hexdigest(encode_utf8(input_string))
    IN [i \in 1..Len(d) |-> IF d[i] >= 97 THEN d[i] - 32 ELSE d[i]]

double_hash_base64(input_string) == sha512_hexdigest(encode_utf8(input_string))

\* {char: idx for idx, char in enumerate(seq, start)}
enumerate(seq, start) ==
    [c \in Range(seq) |-> start + (CHOOSE i \in 1..Len(seq) : seq[i] = c) - 1]

\* dict.update
update(m, other) ==
    [c \in DOMAIN m \cup DOMAIN other |-> IF c \in DOMAIN other THEN other[c] ELSE m[c]]

char_to_number_mapping_dense ==
    update(update(enumerate(ascii_lowercase, 1), enumerate(ascii_uppercase, 27)),
           enumerate(digits, 53))

char_to_number_mapping ==
    update(update(enumerate(ascii_lowercase, 1), enumerate(ascii_uppercase, 28)),
           enumerate(digits, 55))

\* the for loop: total_sum after the characters lo..hi have been added to 0.
\* The additions are grouped by halves of the range (evaluation stays shallow
\* on a 128-character string); the total is that of adding left to right.
RECURSIVE sum_loop(_, _, _, _)
sum_loop(input_string, mapping, lo, hi) ==
    IF lo > hi THEN 0
    ELSE IF lo = hi
         THEN IF input_string[lo] \in DOMAIN mapping
              THEN mapping[input_string[lo]]
              ELSE input_string[lo] + 66
    ELSE sum_loop(input_string, mapping, lo, (lo + hi) \div 2)
         + sum_loop(input_string, mapping, ((lo + hi) \div 2) + 1, hi)

\* the same with a total that wraps at 16 bits
RECURSIVE sum_loop_wrapping(_, _, _, _)
sum_loop_wrapping(input_string, mapping, lo, hi) ==
    IF lo > hi THEN 0
    ELSE IF lo = hi
         THEN (IF input_string[lo] \in DOMAIN mapping
               THEN mapping[input_string[lo]]
               ELSE input_string[lo] + 66) % 65536
    ELSE (sum_loop_wrapping(input_string, mapping, lo, (lo + hi) \div 2)
          + sum_loop_wrapping(input_string, mapping, ((lo + hi) \div 2) + 1, hi)) % 65536

\* the same with each mapped value weighted by its position
RECURSIVE sum_loop_weighted(_, _, _, _)
sum_loop_weighted(input_string, mapping, lo, hi) ==
    IF lo > hi THEN 0
    ELSE IF lo = hi
         THEN IF input_string[lo] \in DOMAIN mapping
              THEN lo * mapping[input_string[lo]]
              ELSE input_string[lo] + 66
    ELSE sum_loop_weighted(input_string, mapping, lo, (lo + hi) \div 2)
         + sum_loop_weighted(input_string, mapping, ((lo + hi) \div 2) + 1, hi)

calculate_character_sum_wrapping(input_string) ==
    sum_loop_wrapping(input_string, char_to_number_mapping, 1, Len(input_string))

calculate_character_sum_weighted(input_string) ==
    sum_loop_weighted(input_string, char_to_number_mapping, 1, Len(input_string))

calculate_character_sum(input_string) ==
    LET mapping == char_to_number_mapping
    IN sum_loop(input_string, mapping, 1, Len(input_string))

reduce_to_ten_digits_unreduced(character_sum) ==
    LET hashed_number ==
            SubSeq(sha256_hexdigest(encode_utf8(str_int(character_sum))), 1, 10)
    IN int16(hashed_number)

reduce_to_ten_digits(character_sum) ==
    LET hashed_number ==
            SubSeq(sha256_hexdigest(encode_utf8(str_int(character_sum))), 1, 10)
        ten_digit_number_ == int16(hashed_number)
    IN mod_ten_billion(ten_digit_number_)

\* ----------------------------------------------------------- direct calls
\* The functions are also called directly (the unit tests do), here with
\* arguments from bounded sets: 'a', 'Z', '9', '-', U+1F600, e-acute, the euro
\* sign and the space, the last three reached by raising NumChars.
PaletteSeq == <<97, 90, 57, 45, 128512, 233, 8364, 32>>

Palette == {PaletteSeq[i] : i \in 1..Min(NumChars, Len(PaletteSeq))}

Strings == UNION {[1..n -> Palette] : n \in 0..MaxStrLen}

Draws == 0..(NumDraws - 1)

Lengths == (0 - MaxLength)..MaxLength

NoArgs == [s |-> << >>, given |-> FALSE, length |-> 0, rnd |-> <<0, 0>>, n |-> 0]

NoRet == [str |-> << >>, int |-> 0, big |-> [hi |-> 0, lo |-> 0], map |-> << >>]

\* the length a call binds: the argument when given, else the default
bound_length(given, length, default) == IF given THEN length ELSE default

Call_generate_random_string ==
    /\ fn = "none"
    /\ \E given \in BOOLEAN, length \in Lengths, rnd \in Draws :
          /\ given \/ length = 0
          /\ fn' = "generate_random_string"
          /\ args' = [NoArgs EXCEPT !.given = given, !.length = length, !.rnd = <<rnd, 0>>]
          /\ ret' = [NoRet EXCEPT !.str = generate_random_string(
                        bound_length(given, length, DefaultStringLength), rnd)]
    /\ UNCHANGED <<hashlib, runvars>>

Call_generate_salt ==
    /\ fn = "none"
    /\ \E given \in BOOLEAN, length \in Lengths, rnd \in Draws :
          /\ given \/ length = 0
          /\ fn' = "generate_salt"
          /\ args' = [NoArgs EXCEPT !.given = given, !.length = length, !.rnd = <<rnd, 0>>]
          /\ ret' = [NoRet EXCEPT !.str = generate_salt(
                        bound_length(given, length, DefaultSaltLength), rnd)]
    /\ UNCHANGED <<hashlib, runvars>>

Call_hash_with_salt ==
    /\ fn = "none"
    /\ \E s \in Strings, rnd_front \in Draws, rnd_back \in Draws :
          /\ fn' = "hash_with_salt"
          /\ args' = [NoArgs EXCEPT !.s = s, !.rnd = <<rnd_front, rnd_back>>]
          /\ ret' = [NoRet EXCEPT !.str = hash_with_salt(s, rnd_front, rnd_back)]
    /\ UNCHANGED <<hashlib, runvars>>

Call_double_hash_base64 ==
    /\ fn = "none"
    /\ \E s \in Strings :
          /\ fn' = "double_hash_base64"
          /\ args' = [NoArgs EXCEPT !.s = s]
          /\ ret' = [NoRet EXCEPT !.str = double_hash_base64(s)]
    /\ UNCHANGED <<hashlib, runvars>>

Call_char_to_number_mapping ==
    /\ fn = "none"
    /\ fn' = "char_to_number_mapping"
    /\ args' = NoArgs
    /\ ret' = [NoRet EXCEPT !.map = char_to_number_mapping]
    /\ UNCHANGED <<hashlib, runvars>>

Call_calculate_character_sum ==
    /\ fn = "none"
    /\ \E s \in Strings :
          /\ fn' = "calculate_character_sum"
          /\ args' = [NoArgs EXCEPT !.s = s]
          /\ ret' = [NoRet EXCEPT !.int = calculate_character_sum(s)]
    /\ UNCHANGED <<hashlib, runvars>>

\* reduce_to_ten_digits(calculate_character_sum(s)), as the unit test calls it
Call_reduce_to_ten_digits ==
    /\ fn = "none"
    /\ \E s \in Strings :
          /\ fn' = "reduce_to_ten_digits"
          /\ args' = [NoArgs EXCEPT !.s = s, !.n = calculate_character_sum(s)]
          /\ ret' = [NoRet EXCEPT !.big = reduce_to_ten_digits(calculate_character_sum(s))]
    /\ UNCHANGED <<hashlib, runvars>>

Return ==
    /\ fn # "none"
    /\ fn' = "none"
    /\ args' = NoArgs
    /\ ret' = NoRet
    /\ UNCHANGED <<hashlib, runvars>>

\* ------------------------------------------------------------- the program
Runs == {1, 2}

NoBig == [hi |-> 0 - 1, lo |-> 0 - 1]

InitRuns ==
    /\ pc = [r \in Runs |-> "generate"]
    /\ random_string = [r \in Runs |-> << >>]
    /\ salted_hash = [r \in Runs |-> << >>]
    /\ double_hashed = [r \in Runs |-> << >>]
    /\ char_sum = [r \in Runs |-> 0 - 1]
    /\ ten_digit_number = [r \in Runs |-> NoBig]
    /\ log = [r \in Runs |-> << >>]
    /\ stdout = [r \in Runs |-> << >>]
    /\ trace = [r \in Runs |-> << >>]
    /\ exc = [r \in Runs |-> "none"]
    /\ exit_status = [r \in Runs |-> 0 - 1]
    /\ test_failures = [r \in Runs |-> {}]

\* logger.info / logger.error: one record
info(msg, value) == [level |-> "INFO", msg |-> msg, value |-> value, exc_info |-> "none"]

error(msg, e) == [level |-> "ERROR", msg |-> msg, value |-> << >>, exc_info |-> e]

\* what a failing call raises
Exceptions == {"OSError"}

\* main, step 1
Main_generate_random_string(r) ==
    /\ pc[r] = "generate"
    /\ \E rnd \in Draws :
          LET s == generate_random_string(DefaultStringLength, rnd)
          IN /\ random_string' = [random_string EXCEPT ![r] = s]
             /\ log' = [log EXCEPT ![r] = Append(@, info("Random string generated: ", s))]
    /\ trace' = [trace EXCEPT ![r] = Append(@, "generate_random_string")]
    /\ pc' = [pc EXCEPT ![r] = "salt"]
    /\ UNCHANGED <<hashlib, callvars, salted_hash, double_hashed, char_sum,
                   ten_digit_number, stdout, exc, exit_status, test_failures>>

\* main, step 2
Main_hash_with_salt(r) ==
    /\ pc[r] = "salt"
    /\ \E rnd_front \in Draws, rnd_back \in Draws :
          LET s == hash_with_salt(random_string[r], rnd_front, rnd_back)
          IN /\ salted_hash' = [salted_hash EXCEPT ![r] = s]
             /\ log' = [log EXCEPT ![r] = Append(@, info("Salted hash: ", s))]
    /\ trace' = [trace EXCEPT ![r] = Append(@, "hash_with_salt")]
    /\ pc' = [pc EXCEPT ![r] = "rehash"]
    /\ UNCHANGED <<hashlib, callvars, random_string, double_hashed, char_sum,
                   ten_digit_number, stdout, exc, exit_status, test_failures>>

Main_double_hash_base64_salting(r) ==
    /\ pc[r] = "rehash"
    /\ \E rnd_front \in Draws, rnd_back \in Draws :
          LET s == SubSeq(hash_with_salt_inside(salted_hash[r], rnd_front, rnd_back),
                          DefaultSaltLength + 1, DefaultSaltLength + 128)
          IN /\ double_hashed' = [double_hashed EXCEPT ![r] = s]
             /\ log' = [log EXCEPT ![r] = Append(@, info("Double hashed value: ", s))]
    /\ trace' = [trace EXCEPT ![r] = Append(@, "double_hash_base64")]
    /\ pc' = [pc EXCEPT ![r] = "sum"]
    /\ UNCHANGED <<hashlib, callvars, random_string, salted_hash, char_sum,
                   ten_digit_number, stdout, exc, exit_status, test_failures>>

\* main, step 3
Main_double_hash_base64(r) ==
    /\ pc[r] = "rehash"
    /\ LET s == double_hash_base64(salted_hash[r])
       IN /\ double_hashed' = [double_hashed EXCEPT ![r] = s]
          /\ log' = [log EXCEPT ![r] = Append(@, info("Double hashed value: ", s))]
    /\ trace' = [trace EXCEPT ![r] = Append(@, "double_hash_base64")]
    /\ pc' = [pc EXCEPT ![r] = "sum"]
    /\ UNCHANGED <<hashlib, callvars, random_string, salted_hash, char_sum,
                   ten_digit_number, stdout, exc, exit_status, test_failures>>

\* main, step 4, first statement
Main_calculate_character_sum(r) ==
    /\ pc[r] = "sum"
    /\ char_sum' = [char_sum EXCEPT ![r] = calculate_character_sum(double_hashed[r])]
    /\ trace' = [trace EXCEPT ![r] = Append(@, "calculate_character_sum")]
    /\ pc' = [pc EXCEPT ![r] = "reduce"]
    /\ UNCHANGED <<hashlib, callvars, random_string, salted_hash, double_hashed,
                   ten_digit_number, log, stdout, exc, exit_status, test_failures>>

\* main, step 4, second statement and its log line
Main_reduce_to_ten_digits(r) ==
    /\ pc[r] = "reduce"
    /\ LET n == reduce_to_ten_digits(char_sum[r])
       IN /\ ten_digit_number' = [ten_digit_number EXCEPT ![r] = n]
          /\ log' = [log EXCEPT ![r] =
                        Append(@, info("Final Ten Digit Number: ", format_010(n)))]
    /\ trace' = [trace EXCEPT ![r] = Append(@, "reduce_to_ten_digits")]
    /\ pc' = [pc EXCEPT ![r] = "print"]
    /\ UNCHANGED <<hashlib, callvars, random_string, salted_hash, double_hashed,
                   char_sum, stdout, exc, exit_status, test_failures>>

\* main: print, the last statement of the try block; main then returns
Main_print(r) ==
    /\ pc[r] = "print"
    /\ stdout' = [stdout EXCEPT ![r] =
                     Append(@, [text |-> "Ten Digit Number: ",
                                value |-> format_010(ten_digit_number[r])])]
    /\ trace' = [trace EXCEPT ![r] = Append(@, "print")]
    /\ pc' = [pc EXCEPT ![r] = "returned"]
    /\ UNCHANGED <<hashlib, callvars, random_string, salted_hash, double_hashed,
                   char_sum, ten_digit_number, log, exc, exit_status, test_failures>>

\* main: the statement about to run raises instead (the random source, the
\* encoder, the hash library, the allocator or the output stream fails); control
\* passes to the except clause
Main_raises(r) ==
    /\ pc[r] \in {"generate", "salt", "rehash", "sum", "reduce", "print"}
    /\ \E e \in Exceptions :
          /\ exc' = [exc EXCEPT ![r] = e]
          /\ trace' = [trace EXCEPT ![r] = Append(@, e)]
    /\ pc' = [pc EXCEPT ![r] = "except"]
    /\ UNCHANGED <<hashlib, callvars, random_string, salted_hash, double_hashed,
                   char_sum, ten_digit_number, log, stdout, exit_status, test_failures>>

Main_except_swallowing(r) ==
    /\ pc[r] = "except"
    /\ log' = [log EXCEPT ![r] =
                  Append(@, error("An error occurred during processing.", exc[r]))]
    /\ exc' = [exc EXCEPT ![r] = "none"]
    /\ pc' = [pc EXCEPT ![r] = "returned"]
    /\ UNCHANGED <<hashlib, callvars, random_string, salted_hash, double_hashed,
                   char_sum, ten_digit_number, stdout, trace, exit_status,
                   test_failures>>

\* main: except Exception: logger.error(..., exc_info=True); raise
Main_except(r) ==
    /\ pc[r] = "except"
    /\ log' = [log EXCEPT ![r] =
                  Append(@, error("An error occurred during processing.", exc[r]))]
    /\ pc' = [pc EXCEPT ![r] = "raised"]
    /\ UNCHANGED <<hashlib, callvars, random_string, salted_hash, double_hashed,
                   char_sum, ten_digit_number, stdout, trace, exc, exit_status,
                   test_failures>>

\* the script: main() raised, nothing catches it, the interpreter exits 1
Script_uncaught(r) ==
    /\ pc[r] = "raised"
    /\ exit_status' = [exit_status EXCEPT ![r] = 1]
    /\ pc' = [pc EXCEPT ![r] = "exited"]
    /\ UNCHANGED <<hashlib, callvars, random_string, salted_hash, double_hashed,
                   char_sum, ten_digit_number, log, stdout, trace, exc, test_failures>>

\* TestSecureHashFunctions: the assertion of each test
test_generate_random_string(rnd) ==
    LET rand_str == generate_random_string(DefaultStringLength, rnd)
    IN /\ Len(rand_str) = 25
       /\ \A i \in 1..Len(rand_str) : rand_str[i] \in Range(ascii_letters \o digits)

test_generate_salt(rnd) ==
    LET salt == generate_salt(DefaultSaltLength, rnd)
    IN /\ Len(salt) = 6
       /\ \A i \in 1..Len(salt) : salt[i] \in Range(ascii_letters \o digits)

test_string == <<116, 101, 115, 116>>

test_hash_with_salt(rnd_front, rnd_back) ==
    Len(hash_with_salt(test_string, rnd_front, rnd_back)) = 140

test_double_hash_base64 == Len(double_hash_base64(test_string)) = 128

test_calculate_character_sum_and_reduce ==
    LET test_hash == double_hash_base64(test_string)
        total == calculate_character_sum(test_hash)
        reduced == reduce_to_ten_digits(total)
    IN reduced.hi >= 0 /\ reduced.lo >= 0 /\ reduced.hi < Limb

\* the script: main() returned; unittest.main(argv=[''], exit=False) runs the
\* tests and reports on stderr, and the script ends with status 0
Script_unittest(r) ==
    /\ pc[r] = "returned"
    /\ \E ok1 \in {test_generate_random_string(rnd) : rnd \in Draws},
          ok2 \in {test_generate_salt(rnd) : rnd \in Draws},
          ok3 \in {test_hash_with_salt(rnd_front, rnd_back) :
                      rnd_front \in Draws, rnd_back \in Draws} :
          test_failures' = [test_failures EXCEPT ![r] =
              (IF ok1 THEN {} ELSE {"test_generate_random_string"})
              \cup (IF ok2 THEN {} ELSE {"test_generate_salt"})
              \cup (IF ok3 THEN {} ELSE {"test_hash_with_salt"})
              \cup (IF test_double_hash_base64 THEN {} ELSE {"test_double_hash_base64"})
              \cup (IF test_calculate_character_sum_and_reduce THEN {}
                    ELSE {"test_calculate_character_sum_and_reduce"})]
    /\ exit_status' = [exit_status EXCEPT ![r] = 0]
    /\ pc' = [pc EXCEPT ![r] = "exited"]
    /\ UNCHANGED <<hashlib, callvars, random_string, salted_hash, double_hashed,
                   char_sum, ten_digit_number, log, stdout, trace, exc>>

Step(r) ==
    \/ Main_generate_random_string(r)
    \/ Main_hash_with_salt(r)
    \/ Main_double_hash_base64(r)
    \/ Main_calculate_character_sum(r)
    \/ Main_reduce_to_ten_digits(r)
    \/ Main_print(r)
    \/ Main_raises(r)
    \/ Main_except(r)
    \/ Script_uncaught(r)
    \/ Script_unittest(r)

Init ==
    /\ hashlib \in 0..(NumHashes - 1)
    /\ fn = "none"
    /\ args = NoArgs
    /\ ret = NoRet
    /\ InitRuns

NextCalls ==
    \/ Call_generate_random_string
    \/ Call_generate_salt
    \/ Call_hash_with_salt
    \/ Call_double_hash_base64
    \/ Call_char_to_number_mapping
    \/ Call_calculate_character_sum
    \/ Call_reduce_to_ten_digits
    \/ Return

SpecCalls == Init /\ [][NextCalls]_vars

\* one invocation of the script
Next == Step(1)

Spec == Init /\ [][Next]_vars

\* two invocations of the script, one after the other, under a digest function
\* that depends on what it hashes
InitPair == Init /\ hashlib >= 4

NextPair == \E r \in Runs : (r = 2 => pc[1] = "exited") /\ Step(r)

SpecPair == InitPair /\ [][NextPair]_vars

\* ------------------------------------------------- claims, direct calls
\* the 62-symbol alphabet, by code point
Alphabet62 == (97..122) \cup (65..90) \cup (48..57)

InRange10(v) == v.hi \in 0..(Limb - 1) /\ v.lo \in 0..(Limb - 1)

\* what the character map is said to give a mapped character, and the fallback
CharValue(c) ==
    IF c \in 97..122 THEN c - 96
    ELSE IF c \in 65..90 THEN c - 37
    ELSE IF c \in 48..57 THEN c + 7
    ELSE c + 66

\* the sum over the positions of s, taken character by character: each
\* character of C counts its value once for every position it stands at
RECURSIVE SumByChar(_, _)
SumByChar(s, C) ==
    IF C = {} THEN 0
    ELSE LET c == CHOOSE d \in C : TRUE
         IN CharValue(c) * Cardinality({i \in 1..Len(s) : s[i] = c})
            + SumByChar(s, C \ {c})

SumOver(s) == SumByChar(s, Range(s))

Permutations_of(s) ==
    {[i \in 1..Len(s) |-> s[f[i]]] :
        f \in {g \in [1..Len(s) -> 1..Len(s)] : Range(g) = 1..Len(s)}}

\* C1: for every string s, the empty one included (its sum is 0),
\* reduce_to_ten_digits(calculate_character_sum(s)) is an integer r with
\* 0 <= r <= 9999999999.
C1_ReducedInRange ==
    fn = "reduce_to_ten_digits" =>
        /\ InRange10(ret.big)
        /\ (args.s = << >> => args.n = 0)

C1_Witness ==
    /\ fn = "reduce_to_ten_digits"
    /\ args.s = << >>
    /\ args.n = 0
    /\ int16(SubSeq(sha256_hexdigest(<<48>>), 1, 10)).hi >= Limb
    /\ InRange10(ret.big)

\* C2: generate_random_string(L) and generate_salt(L) return a string of
\* exactly L characters of the 62-symbol alphabet for L >= 0, the empty
\* string for L <= 0, and with no argument strings of 25 and 6 characters.
C2_LengthAndAlphabet ==
    fn \in {"generate_random_string", "generate_salt"} =>
        /\ \A i \in 1..Len(ret.str) : ret.str[i] \in Alphabet62
        /\ (args.given /\ args.length >= 0) => Len(ret.str) = args.length
        /\ (args.given /\ args.length <= 0) => ret.str = << >>
        /\ (~args.given /\ fn = "generate_random_string") => Len(ret.str) = 25
        /\ (~args.given /\ fn = "generate_salt") => Len(ret.str) = 6

C2_Witness ==
    /\ fn = "generate_random_string"
    /\ args.given
    /\ args.length = MaxLength
    /\ Len(ret.str) = MaxLength
    /\ Cardinality(Range(ret.str)) > 1

\* C3: for every (encodable) string x and every outcome of the two salt
\* draws, hash_with_salt(x) has 2*6 + 128 = 140 characters, its first 6 and
\* last 6 are the front and back salts, of the 62-symbol alphabet, and its
\* middle 128 are double_hash_base64(x).
C3_SaltedHashShape ==
    fn = "hash_with_salt" =>
        /\ Len(ret.str) = 2 * 6 + 128
        /\ Len(ret.str) = 140
        /\ SubSeq(ret.str, 1, 6) = generate_salt(6, args.rnd[1])
        /\ SubSeq(ret.str, 135, 140) = generate_salt(6, args.rnd[2])
        /\ \A i \in (1..6) \cup (135..140) : ret.str[i] \in Alphabet62
        /\ SubSeq(ret.str, 7, 134) = double_hash_base64(args.s)

C3_Witness ==
    /\ fn = "hash_with_salt"
    /\ hashlib >= 4
    /\ Len(args.s) > 0
    /\ SubSeq(ret.str, 1, 6) # SubSeq(ret.str, 135, 140)
    /\ SubSeq(ret.str, 7, 134) = double_hash_base64(args.s)

\* C5: every call of char_to_number_mapping returns the same mapping, of
\* exactly 62 keys: a..z to 1..26, A..Z to 28..53, 0..9 to 55..64; it is
\* injective and no key maps to 27 or 54.
C5_CharacterMap ==
    fn = "char_to_number_mapping" =>
        /\ DOMAIN ret.map = Alphabet62
        /\ Cardinality(DOMAIN ret.map) = 62
        /\ \A c \in 97..122 : ret.map[c] = c - 96
        /\ \A c \in 65..90 : ret.map[c] = (c - 64) + 27
        /\ \A c \in 48..57 : ret.map[c] = (c - 48) + 55
        /\ ret.map[97] = 1 /\ ret.map[122] = 26
        /\ ret.map[65] = 28 /\ ret.map[90] = 53
        /\ ret.map[48] = 55 /\ ret.map[57] = 64
        /\ \A c, d \in DOMAIN ret.map : ret.map[c] = ret.map[d] => c = d
        /\ \A c \in DOMAIN ret.map : ret.map[c] \notin {27, 54}

C5_Witness ==
    /\ fn = "char_to_number_mapping"
    /\ Cardinality(DOMAIN ret.map) = 62
    /\ ret.map[90] = 53

\* C8: calculate_character_sum(s) is the sum over the positions of s of the
\* mapped value of a mapped character and of code point + 66 of any other;
\* it does not wrap around, and is 0 for the empty string.
C8_SumOfValues ==
    fn = "calculate_character_sum" =>
        /\ ret.int = SumOver(args.s)
        /\ (args.s = << >> => ret.int = 0)

C8_Witness ==
    /\ fn = "calculate_character_sum"
    /\ \E i \in 1..Len(args.s) : args.s[i] \in Alphabet62
    /\ \E i \in 1..Len(args.s) : args.s[i] \notin Alphabet62
    /\ ret.int > 65536

\* C10: calculate_character_sum is additive over concatenation, so the same
\* for every permutation of a string, and so is the ten-digit number
\* reduce_to_ten_digits makes of it.
C10_AdditiveAndOrderFree ==
    fn = "calculate_character_sum" =>
        /\ \A i \in 0..Len(args.s) :
              ret.int = calculate_character_sum(SubSeq(args.s, 1, i))
                        + calculate_character_sum(SubSeq(args.s, i + 1, Len(args.s)))
        /\ \A p \in Permutations_of(args.s) :
              /\ calculate_character_sum(p) = ret.int
              /\ reduce_to_ten_digits(calculate_character_sum(p))
                    = reduce_to_ten_digits(ret.int)

C10_Witness ==
    /\ fn = "calculate_character_sum"
    /\ Len(args.s) >= 2
    /\ args.s[1] # args.s[2]
    /\ calculate_character_sum(<<args.s[2], args.s[1]>> \o SubSeq(args.s, 3, Len(args.s)))
          = ret.int

\* --------------------------------------------------- claims, the program
StageOrder == <<"generate_random_string", "hash_with_salt", "double_hash_base64",
                "calculate_character_sum", "reduce_to_ten_digits", "print">>

Raised(r) == \E i \in 1..Len(trace[r]) : trace[r][i] \in Exceptions

IsPrefix(s, u) == Len(s) <= Len(u) /\ s = SubSeq(u, 1, Len(s))

\* the number a line of ten decimal digits stands for, in limbs
RECURSIVE DecimalValue(_)
DecimalValue(d) ==
    IF Len(d) = 0 THEN 0
    ELSE 10 * DecimalValue(SubSeq(d, 1, Len(d) - 1)) + (d[Len(d)] - 48)

TenDigitValue(d) == [hi |-> DecimalValue(SubSeq(d, 1, 5)), lo |-> DecimalValue(SubSeq(d, 6, 10))]

HexChars == (48..57) \cup (97..102)

ErrorRecords(r) == {i \in 1..Len(log[r]) : log[r][i].level = "ERROR"}

\* C4: the stages that draw nothing are deterministic: in two runs, equal
\* inputs to double_hash_base64 give equal 128-character lowercase-hex
\* outputs, equal inputs to calculate_character_sum and reduce_to_ten_digits
\* give the same ten-digit number, and runs that drew the same random string
\* and salts print the same line.
C4_DeterministicStages ==
    \A r \in Runs : \A q \in Runs :
        /\ double_hashed[r] # << >> =>
              /\ Len(double_hashed[r]) = 128
              /\ \A i \in 1..128 : double_hashed[r][i] \in HexChars
        /\ (double_hashed[r] # << >> /\ double_hashed[q] # << >>
               /\ salted_hash[r] = salted_hash[q])
              => double_hashed[r] = double_hashed[q]
        /\ (ten_digit_number[r] # NoBig /\ ten_digit_number[q] # NoBig
               /\ double_hashed[r] = double_hashed[q])
              => /\ char_sum[r] = char_sum[q]
                 /\ ten_digit_number[r] = ten_digit_number[q]
        /\ (stdout[r] # << >> /\ stdout[q] # << >>
               /\ random_string[r] = random_string[q]
               /\ SubSeq(salted_hash[r], 1, 6) = SubSeq(salted_hash[q], 1, 6)
               /\ SubSeq(salted_hash[r], 135, 140) = SubSeq(salted_hash[q], 135, 140))
              => stdout[r] = stdout[q]

C4_Witness ==
    /\ stdout[1] # << >> /\ stdout[2] # << >>
    /\ salted_hash[1] = salted_hash[2]
    /\ SubSeq(salted_hash[1], 1, 6) # SubSeq(salted_hash[1], 135, 140)
    /\ double_hashed[1] = double_hashed[2]
    /\ stdout[1] = stdout[2]

\* C6: in a successful run of main the stages run once each, in the order
\* generate, salted hash, re-hash, character sum, reduce, each on the output
\* of the one before; then exactly one line 'Ten Digit Number: ' followed by
\* the reduced value zero-padded to exactly 10 digits is printed, and nothing
\* is printed before reduce has completed.
C6_PipelineOrderAndOutput ==
    \A r \in Runs :
        /\ IsPrefix(SubSeq(trace[r], 1, Len(trace[r]) - (IF Raised(r) THEN 1 ELSE 0)),
                    StageOrder)
        /\ stdout[r] # << >> =>
              \E i \in 1..Len(trace[r]) : trace[r][i] = "reduce_to_ten_digits"
        /\ (pc[r] \in {"returned", "exited"} /\ ~Raised(r)) =>
              /\ trace[r] = StageOrder
              /\ Len(random_string[r]) = 25
              /\ SubSeq(salted_hash[r], 7, 134)
                    = sha512_hexdigest(encode_utf8(random_string[r]))
              /\ double_hashed[r] = sha512_hexdigest(encode_utf8(salted_hash[r]))
              /\ char_sum[r] = SumOver(double_hashed[r])
              /\ InRange10(ten_digit_number[r])
              /\ Len(stdout[r]) = 1
              /\ stdout[r][1].text = "Ten Digit Number: "
              /\ Len(stdout[r][1].value) = 10
              /\ \A i \in 1..10 : stdout[r][1].value[i] \in 48..57
              /\ TenDigitValue(stdout[r][1].value) = ten_digit_number[r]
              /\ TenDigitValue(stdout[r][1].value)
                    = mod_ten_billion(int16(SubSeq(
                          sha256_hexdigest(encode_utf8(str_int(char_sum[r]))), 1, 10)))

C6_Witness ==
    /\ pc[1] = "exited"
    /\ exit_status[1] = 0
    /\ trace[1] = StageOrder
    /\ Len(stdout[1]) = 1
    /\ stdout[1][1].value[1] = 48
    /\ TenDigitValue(stdout[1][1].value) = ten_digit_number[1]

\* C7: if a stage of main raises, the remaining stages are skipped, the error
\* is logged once at error level, the same exception is re-raised to the
\* caller, no result line is printed, and the process ends with a non-zero
\* status.
C7_FailureIsFatal ==
    \A r \in Runs :
        Raised(r) =>
            /\ pc[r] \in {"except", "raised", "exited"}
            /\ trace[r][Len(trace[r])] \in Exceptions
            /\ Len(trace[r]) <= Len(StageOrder)
            /\ IsPrefix(SubSeq(trace[r], 1, Len(trace[r]) - 1), StageOrder)
            /\ stdout[r] = << >>
            /\ exc[r] = trace[r][Len(trace[r])]
            /\ pc[r] = "except" => ErrorRecords(r) = {}
            /\ pc[r] \in {"raised", "exited"} =>
                  /\ ErrorRecords(r) = {Len(log[r])}
                  /\ log[r][Len(log[r])].exc_info = exc[r]
            /\ pc[r] = "exited" => exit_status[r] \notin {0 - 1, 0}
            /\ exit_status[r] \in {0 - 1, 1}

C7_Witness ==
    /\ pc[1] = "exited"
    /\ Raised(1)
    /\ trace[1] = <<"generate_random_string", "hash_with_salt", "double_hash_base64",
                    "OSError">>
    /\ Cardinality(ErrorRecords(1)) = 1
    /\ exit_status[1] = 1
    /\ stdout[1] = << >>

\* C9: in every run of main the string handed to calculate_character_sum is
\* 128 characters of 0-9a-f, so the fallback branch is never taken and the
\* sum lies in 128..8192; the printed number is a function of that sum alone,
\* so it is one of at most 8065 values.
C9_SumOfHexDigest ==
    \A r \in Runs :
        /\ char_sum[r] # 0 - 1 =>
              /\ Len(double_hashed[r]) = 128
              /\ \A i \in 1..128 :
                    /\ double_hashed[r][i] \in HexChars
                    /\ double_hashed[r][i] \in DOMAIN char_to_number_mapping
                    /\ char_to_number_mapping[double_hashed[r][i]] \in 1..64
              /\ char_sum[r] \in (128 * 1)..(128 * 64)
              /\ char_sum[r] \in 128..8192
        /\ stdout[r] # << >> =>
              stdout[r][1].value = format_010(reduce_to_ten_digits(char_sum[r]))
        /\ Cardinality(128..8192) = 8065

C9_Witness ==
    /\ stdout[1] # << >>
    /\ char_sum[1] = 8192
    /\ \A i \in 1..128 : double_hashed[1][i] = 57
    /\ stdout[1][1].value = format_010(reduce_to_ten_digits(8192))

====
